---- MODULE Spec2Model ----
(***************************************************************************)
(* WordPress addon analysis of comission (comission/CMS/WordPress.py).     *)
(*                                                                         *)
(* Python strings that the code parses (version strings) are sequences of  *)
(* one-character strings, so that LooseVersion parsing is computed.        *)
(* Strings the code only stores or tests for emptiness are TLA+ strings.   *)
(***************************************************************************)
EXTENDS Integers, Sequences, FiniteSets, TLC

VARIABLES env, addon_type, addons_name, addons, idx, pc, addon, last, log, core

vars == <<env, addon_type, addons_name, addons, idx, pc, addon, last, log, core>>

\* ------------------------------------------------------------------ bounds
\* Largest number of addons fetch_addons discovers.
MaxAddons == 2

\* Largest number of entries in a vulnerability database answer.
MaxVulns == 2

\* ----------------------------------------------------------------- strings
None == <<"<None>">>

Digits == <<"0", "1", "2", "3", "4", "5", "6", "7", "8", "9">>

Lowers ==
  <<"a", "b", "c", "d", "e", "f", "g", "h", "i", "j", "k", "l", "m",
    "n", "o", "p", "q", "r", "s", "t", "u", "v", "w", "x", "y", "z">>

\* Characters in code point order (those the model's strings use).
CodePoints == <<" ", "-", ".">> \o Digits \o <<"N">> \o Lowers

RECURSIVE IndexOf(_, _, _)
IndexOf(seq, c, k) ==
  IF k > Len(seq) THEN 0
  ELSE IF seq[k] = c THEN k
  ELSE IndexOf(seq, c, k + 1)

Ord(c) == IndexOf(CodePoints, c, 1)

IsDigit(c) == IndexOf(Digits, c, 1) > 0

IsLower(c) == IndexOf(Lowers, c, 1) > 0

DigitVal(c) == IndexOf(Digits, c, 1) - 1

\* Python's str < str: lexicographic by code point.
RECURSIVE StrLess(_, _)
StrLess(a, b) ==
  IF b = <<>> THEN FALSE
  ELSE IF a = <<>> THEN TRUE
  ELSE IF Head(a) = Head(b) THEN StrLess(Tail(a), Tail(b))
  ELSE Ord(Head(a)) < Ord(Head(b))

\* ------------------------------------------- distutils.version.LooseVersion
\* component_re = (\d+ | [a-z]+ | \.): the class of a character.
CharClass(c) ==
  IF IsDigit(c) THEN "digit"
  ELSE IF IsLower(c) THEN "alpha"
  ELSE IF c = "." THEN "dot"
  ELSE "other"

RECURSIVE RunLen(_, _)
RunLen(s, k) ==
  IF s = <<>> \/ CharClass(Head(s)) # k THEN 0
  ELSE 1 + RunLen(Tail(s), k)

\* int() of a run of digits.
RECURSIVE ToInt(_)
ToInt(s) ==
  IF s = <<>> THEN 0
  ELSE ToInt(SubSeq(s, 1, Len(s) - 1)) * 10 + DigitVal(s[Len(s)])

IntComp(n) == [int |-> TRUE, n |-> n, s |-> <<>>]

StrComp(s) == [int |-> FALSE, n |-> 0, s |-> s]

\* LooseVersion.parse: split on component_re, drop "." and empty pieces,
\* turn the pieces int() accepts into integers.
RECURSIVE ParseVersion(_)
ParseVersion(s) ==
  IF s = <<>> THEN <<>>
  ELSE LET k == CharClass(Head(s)) IN
    IF k = "dot" THEN ParseVersion(Tail(s))
    ELSE LET n    == RunLen(s, k)
             tok  == SubSeq(s, 1, n)
             rest == SubSeq(s, n + 1, Len(s))
         IN <<IF k = "digit" THEN IntComp(ToInt(tok)) ELSE StrComp(tok)>>
              \o ParseVersion(rest)

\* LooseVersion.__init__: "if vstring: self.parse(vstring)"; without it the
\* object has no attribute "version".
HasVersion(v) == v # None /\ v # <<>>

\* Python's list < list on parsed components: the first pair of unequal
\* components decides ("TypeError" when one is an int and the other a str),
\* and a proper prefix is the smaller list.
RECURSIVE ListLess(_, _)
ListLess(x, y) ==
  IF y = <<>> THEN "False"
  ELSE IF x = <<>> THEN "True"
  ELSE IF Head(x) = Head(y) THEN ListLess(Tail(x), Tail(y))
  ELSE IF Head(x).int # Head(y).int THEN "TypeError"
  ELSE IF Head(x).int THEN (IF Head(x).n < Head(y).n THEN "True" ELSE "False")
  ELSE (IF StrLess(Head(x).s, Head(y).s) THEN "True" ELSE "False")

\* LooseVersion(a) < LooseVersion(b): "True", "False", or the exception raised.
LooseVersionLess(a, b) ==
  IF ~HasVersion(a) \/ ~HasVersion(b) THEN "AttributeError"
  ELSE ListLess(ParseVersion(a), ParseVersion(b))

\* ------------------------------------------------------------ addon record
NotFound == <<"N", "o", "t", " ", "f", "o", "u", "n", "d">>

site_url == "https://wordpress.org/"

url_details == "https://wpvulndb.com/vulnerabilities/"

\* The record addon_analysis creates for a discovered addon ("" of a field
\* that holds parsed text or a list is the empty sequence).
NewAddon(type, addon_name) ==
  [type              |-> type,
   status            |-> "todo",
   name              |-> addon_name,
   version           |-> <<>>,
   last_version      |-> NotFound,
   last_release_date |-> <<>>,
   link              |-> <<>>,
   altered           |-> "",
   cve               |-> "",
   vulns             |-> <<>>,
   notes             |-> "",
   alterations       |-> <<>>,
   filename          |-> "",
   mu                |-> IF type = "plugins" THEN "NO" ELSE ""]

\* What a stage hands back: the record as the stage left it, the error it
\* returned ("None" or "HTTPError"/"FileNotFoundError"), and the exception
\* that left the stage uncaught ("" when none did).
Outcome(a, err, raised) == [addon |-> a, err |-> err, raised |-> raised]

\* An answer of requests.get: an exception raised by the transport, or a
\* response with a status code.
Response(status) == [exc |-> "", status |-> status]

Failed(exc) == [exc |-> exc, status |-> 0]

\* response.raise_for_status()
RaisesForStatus(resp) == resp.status >= 400

\* --------------------------------------------------- get_addon_main_file
get_addon_main_file(a, files) ==
  IF a.type = "themes" THEN [a EXCEPT !.filename = "style.css"]
  ELSE IF "named" \in files THEN [a EXCEPT !.filename = "named.php"]
  ELSE IF "plugin.php" \in files THEN [a EXCEPT !.filename = "plugin.php"]
  ELSE [a EXCEPT !.filename = "nofile"]

\* ----------------------------------------------------- get_addon_version
\* files: the main files present in the addon directory; found: the text the
\* version pattern captures in the main file (None when no line matches).
get_addon_version(a, files, found) ==
  IF a.filename = "nofile" \/ (a.type = "themes" /\ "style.css" \notin files)
       \/ found = None
  THEN Outcome([a EXCEPT !.notes = "No standard extension file. Search manually !"],
               "FileNotFoundError", "")
  ELSE Outcome([a EXCEPT !.version = found], "None", "")

\* ------------------------------------------------ get_addon_last_version
\* str.split("T")[0]
RECURSIVE SplitT(_)
SplitT(s) ==
  IF s = <<>> \/ Head(s) = "T" THEN <<>>
  ELSE <<Head(s)>> \o SplitT(Tail(s))

\* The listing stage recording the version on a match of the version pattern
\* alone ("or" for "and").
get_addon_last_version_or(a, resp, page) ==
  IF resp.exc # "" THEN Outcome(a, "None", resp.exc)
  ELSE IF RaisesForStatus(resp)
  THEN Outcome([a EXCEPT !.notes = "Addon not on official site. Search manually !"],
               "HTTPError", "")
  ELSE IF resp.status = 200 /\ (page.version # None \/ page.date # None)
  THEN Outcome([a EXCEPT !.last_version =
                           IF page.version # None THEN page.version ELSE <<>>,
                         !.last_release_date =
                           IF page.date # None THEN SplitT(page.date) ELSE <<>>,
                         !.link = <<site_url, a.type, a.name>>],
               "None", "")
  ELSE Outcome(a, "None", "")

\* page: what the two patterns capture in the listing page (None: no match).
get_addon_last_version(a, resp, page) ==
  IF resp.exc # "" THEN Outcome(a, "None", resp.exc)
  ELSE IF RaisesForStatus(resp)
  THEN Outcome([a EXCEPT !.notes = "Addon not on official site. Search manually !"],
               "HTTPError", "")
  ELSE IF resp.status = 200 /\ page.version # None /\ page.date # None
  THEN Outcome([a EXCEPT !.last_version = page.version,
                         !.last_release_date = SplitT(page.date),
                         !.link = <<site_url, a.type, a.name>>],
               "None", "")
  ELSE Outcome(a, "None", "")

\* ------------------------------------------------------- check_vulns_addon
\* uCMS.get_poc: the external oracle.  An answer is "true" or "false" (a
\* proof of concept exists or not) or the name of the exception the probe raises.
PocRaises(answer) == answer \in {"HTTPError", "ConnectionError"}

PocStatus(answer) == IF answer = "true" THEN "YES" ELSE "CHECK"

\* vuln_details of an included entry; prefix is "" or " To check : ".
VulnDetails(vuln, prefix, answer) ==
  [name     |-> <<prefix, vuln.title>>,
   link     |-> <<url_details, vuln.id>>,
   type     |-> vuln.vuln_type,
   fixed_in |-> vuln.fixed_in,
   poc      |-> PocStatus(answer)]

\* The loop over the entries of the database answer, from entry k on:
\* acc is addon["vulns"] so far.  The result is the list and the exception
\* that ended the loop early ("" when it ran to the end).
RECURSIVE VulnLoop(_, _, _, _, _)
VulnLoop(version, vulns, oracle, k, acc) ==
  IF k > Len(vulns) THEN [vulns |-> acc, exc |-> ""]
  ELSE LET vuln == vulns[k]
           less == LooseVersionLess(version, vuln.fixed_in)
       IN IF less = "False"
          THEN VulnLoop(version, vulns, oracle, k + 1, acc)
          ELSE IF PocRaises(oracle[k])
          THEN [vulns |-> acc, exc |-> oracle[k]]
          ELSE VulnLoop(version, vulns, oracle, k + 1,
                 Append(acc, VulnDetails(vuln,
                                 IF less = "True" THEN "" ELSE " To check : ",
                                 oracle[k])))

\* vulns: the "vulnerabilities" array of the answer; oracle[k]: what get_poc
\* does when asked about entry k.
check_vulns_addon(a, resp, vulns, oracle) ==
  IF resp.exc # "" THEN Outcome(a, "None", resp.exc)
  ELSE IF RaisesForStatus(resp)
  THEN Outcome([a EXCEPT !.cve = "NO"], "HTTPError", "")
  ELSE IF resp.status # 200 THEN Outcome(a, "None", "")
  ELSE LET r == VulnLoop(a.version, vulns, oracle, 1, a.vulns)
           b == [a EXCEPT !.vulns = r.vulns]
       IN IF r.exc = "HTTPError"
          THEN Outcome([b EXCEPT !.cve = "NO"], "HTTPError", "")
          ELSE IF r.exc # "" THEN Outcome(b, "None", r.exc)
          ELSE Outcome([b EXCEPT !.cve = IF b.vulns # <<>> THEN "YES" ELSE "NO"],
                       "None", "")

\* -------------------------------------------------------- check_vulns_core
\* str.replace(".", "")
RECURSIVE StripDots(_)
StripDots(s) ==
  IF s = <<>> THEN <<>>
  ELSE IF Head(s) = "." THEN StripDots(Tail(s))
  ELSE <<Head(s)>> \o StripDots(Tail(s))

RECURSIVE CoreLoop(_, _, _, _)
CoreLoop(vulns, oracle, k, acc) ==
  IF k > Len(vulns) THEN [vulns |-> acc, exc |-> ""]
  ELSE IF PocRaises(oracle[k]) THEN [vulns |-> acc, exc |-> oracle[k]]
  ELSE CoreLoop(vulns, oracle, k + 1,
                Append(acc, VulnDetails(vulns[k], "", oracle[k])))

\* The value returned: vulns_details and the error.
check_vulns_core(version_core, resp, vulns, oracle) ==
  LET url == <<"wordpresses/", StripDots(version_core)>> IN
  IF resp.exc # "" THEN [url |-> url, ret |-> <<>>, err |-> "None", raised |-> resp.exc]
  ELSE IF RaisesForStatus(resp)
  THEN [url |-> url, ret |-> <<>>, err |-> "HTTPError", raised |-> ""]
  ELSE IF resp.status # 200
  THEN [url |-> url, ret |-> <<>>, err |-> "None", raised |-> ""]
  ELSE LET r == CoreLoop(vulns, oracle, 1, <<>>)
       IN IF r.exc = "HTTPError"
          THEN [url |-> url, ret |-> <<>>, err |-> "HTTPError", raised |-> ""]
          ELSE IF r.exc # ""
          THEN [url |-> url, ret |-> <<>>, err |-> "None", raised |-> r.exc]
          ELSE [url |-> url, ret |-> r.vulns, err |-> "None", raised |-> ""]

\* -------------------------------------------------- check_addon_alteration
\* The files a directory tree can hold, as relative paths, in lexical order.
Paths ==
  <<(<<"css", "style.css">>), (<<"inc", "js", "app.js">>),
    (<<"inc", "util.php">>), (<<"main.php">>)>>

Absent == "absent"

\* checksumdir.dirhash(dir, "sha1"): the digest of the sorted digests of the
\* files' contents; the paths are not hashed.  A tree is a function from the
\* index of a path to the content of the file, or Absent.
dirhash(tree) ==
  [c \in {tree[p] : p \in DOMAIN tree} \ {Absent} |->
     Cardinality({p \in DOMAIN tree : tree[p] = c})]

ignored == {"css", "img", "js", "fonts", "images"}

\* A path below a directory that dircmp ignores.
IsIgnored(path) == \E k \in 1 .. Len(path) - 1 : path[k] \in ignored

RECURSIVE DiffFrom(_, _, _)
DiffFrom(left, right, p) ==
  IF p > Len(Paths) THEN <<>>
  ELSE (IF left[p] # right[p] /\ ~IsIgnored(Paths[p]) THEN <<Paths[p]>> ELSE <<>>)
         \o DiffFrom(left, right, p + 1)

\* uCMS.diff_files over dircmp(addon_path, ref_dir, ignored): the files that
\* are on one side only or differ, outside the ignored directories.
diff_files(left, right, alterations) == alterations \o DiffFrom(left, right, 1)

\* left: the installed tree; right: the tree the archive extracts to.
check_addon_alteration(a, resp, left, right) ==
  IF resp.exc # "" THEN Outcome(a, "None", resp.exc)
  ELSE IF RaisesForStatus(resp)
  THEN Outcome([a EXCEPT !.notes = "The download link is not standard. Search manually !"],
               "HTTPError", "")
  ELSE IF resp.status # 200 THEN Outcome(a, "None", "")
  ELSE IF dirhash(left) = dirhash(right)
  THEN Outcome([a EXCEPT !.altered = "NO"], "None", "")
  ELSE Outcome([a EXCEPT !.altered = "YES",
                         !.alterations = diff_files(left, right, a.alterations)],
               "None", "")

\* ------------------------------------------------------------ environment
V_empty == <<>>

V_0_9 == <<"0", ".", "9">>

V_1_0 == <<"1", ".", "0">>

V_1_2 == <<"1", ".", "2">>

V_1_2_0 == <<"1", ".", "2", ".", "0">>

V_1_5 == <<"1", ".", "5">>

V_1_10 == <<"1", ".", "1", "0">>

V_2_0 == <<"2", ".", "0">>

V_trunk == <<"t", "r", "u", "n", "k">>

D_2019 == <<"2", "0", "1", "9", "T", "1", "0">>

Statuses == {200, 301, 404}

Responses == {Response(s) : s \in Statuses} \cup {Failed("ConnectionError")}

Pages ==
  {[version |-> v, date |-> d] : v \in {None, V_2_0}, d \in {None, D_2019}}

NoPage == [version |-> None, date |-> None]

Answers == {"true", "false", "HTTPError", "ConnectionError"}

Contents == {"c1", "c2"}

Trees ==
  {t \in [1 .. Len(Paths) -> Contents \cup {Absent}] : \E p \in DOMAIN t : t[p] # Absent}

NoTree == [p \in 1 .. Len(Paths) |-> Absent]

Tree(css, js, util, main) == <<css, js, util, main>>

Same == <<Tree("c1", "c1", "c1", "c1"), Tree("c1", "c1", "c1", "c1")>>

\* A database answer: entries numbered in order.
Entry(k, fixed_in) ==
  [id |-> k, title |-> k, vuln_type |-> "XSS", fixed_in |-> fixed_in]

VulnLists(lengths, fixed) ==
  UNION {{[k \in 1 .. n |-> Entry(k, f[k])] : f \in [1 .. n -> fixed]} : n \in lengths}

\* The answers the environment can give, by kind of run.
\* "run": several addons, the outcomes of each stage.
\* "stages": one addon, every version string and every answer.
\* "trees": one addon, every pair of directory trees.
EnvOf(kind) ==
  CASE kind = "run" ->
         [addon_types  |-> {"plugins"},
          names        |-> {"foo", "bar"},
          lengths      |-> 0 .. MaxAddons,
          files        |-> {{"named"}, {}},
          installed    |-> {V_1_0},
          responses    |-> Responses,
          pages        |-> {[version |-> V_2_0, date |-> D_2019],
                            [version |-> V_2_0, date |-> None]},
          fixed        |-> {V_1_5},
          vuln_lengths |-> {0, 1},
          answers      |-> {"true", "HTTPError", "ConnectionError"},
          trees        |-> {Same,
                            <<Tree("c1", "c1", "c1", "c2"), Tree("c1", "c1", "c1", "c1")>>}]
    [] kind = "stages" ->
         [addon_types  |-> {"plugins", "themes"},
          names        |-> {"foo"},
          lengths      |-> {1},
          files        |-> {{"named", "style.css"}, {"plugin.php"}},
          installed    |-> {V_empty, V_1_0, V_1_2, V_1_2_0, V_trunk},
          responses    |-> Responses,
          pages        |-> Pages,
          fixed        |-> {None, V_0_9, V_1_0, V_1_2, V_1_2_0, V_1_5, V_1_10},
          vuln_lengths |-> 0 .. MaxVulns,
          answers      |-> Answers,
          trees        |-> {Same}]
    [] kind = "trees" ->
         [addon_types  |-> {"plugins"},
          names        |-> {"foo"},
          lengths      |-> {1},
          files        |-> {{"named"}},
          installed    |-> {V_1_0},
          responses    |-> Responses,
          pages        |-> {[version |-> V_2_0, date |-> D_2019]},
          fixed        |-> {V_1_5},
          vuln_lengths |-> {0},
          answers      |-> {"true"},
          trees        |-> Trees \X Trees]

\* ------------------------------------------------------------------ state
NoCall ==
  [stage |-> "", pre |-> NewAddon("", ""), resp |-> Response(0), page |-> NoPage,
   vulns |-> <<>>, oracle |-> <<>>, left |-> NoTree, right |-> NoTree,
   err |-> "None", raised |-> ""]

NoCore ==
  [called |-> FALSE, version_core |-> <<>>, resp |-> Response(0), vulns |-> <<>>,
   oracle |-> <<>>, url |-> <<>>, ret |-> <<>>, err |-> "None", raised |-> ""]

InitIn(kind) ==
  /\ env = kind
  /\ addon_type \in EnvOf(kind).addon_types
  /\ \E n \in EnvOf(kind).lengths : addons_name \in [1 .. n -> EnvOf(kind).names]
  /\ addons = <<>>
  /\ idx = 1
  /\ pc = "version"
  /\ addon = NewAddon("", "")
  /\ last = NoCall
  /\ log = <<>>
  /\ core = NoCore

Init == InitIn("run")

\* ----------------------------------------------------------- addon_analysis
Stages == <<"version", "last_version", "vulns", "alteration">>

\* "if err is not None: addons.append(addon); continue", and the append that
\* ends the loop body.
Appends(stage, err) == err # "None" \/ stage = "alteration"

\* The loop without its "continue": the next stage runs whatever the error.
AfterStageNoContinue(stage, err) ==
  IF stage = "alteration" THEN "version"
  ELSE Stages[IndexOf(Stages, stage, 1) + 1]

\* Where the loop goes after a stage returned.
AfterStage(stage, err) ==
  IF Appends(stage, err) THEN "version"
  ELSE Stages[IndexOf(Stages, stage, 1) + 1]

\* The loop body from the return of a stage on.
Step(stage, r, call) ==
  /\ addon' = r.addon
  /\ last' = [call EXCEPT !.stage = stage, !.pre = addon,
                          !.err = r.err, !.raised = r.raised]
  /\ log' = Append(log, [idx |-> idx, stage |-> stage, err |-> r.err,
                         raised |-> r.raised])
  /\ IF r.raised # ""
     THEN pc' = "raised" /\ UNCHANGED <<addons, idx>>
     ELSE /\ pc' = AfterStage(stage, r.err)
          /\ IF Appends(stage, r.err)
             THEN addons' = Append(addons, r.addon) /\ idx' = idx + 1
             ELSE UNCHANGED <<addons, idx>>
  /\ UNCHANGED <<env, addon_type, addons_name, core>>

GetAddonVersion ==
  /\ pc = "version"
  /\ idx <= Len(addons_name)
  /\ ~core.called
  /\ \E files \in EnvOf(env).files, found \in EnvOf(env).installed \cup {None} :
       LET a == get_addon_main_file(NewAddon(addon_type, addons_name[idx]), files)
       IN Step("version", get_addon_version(a, files, found), NoCall)

GetAddonLastVersion ==
  /\ pc = "last_version"
  /\ \E resp \in EnvOf(env).responses, page \in EnvOf(env).pages \cup {NoPage} :
       /\ (resp.exc # "" \/ resp.status # 200) => page = NoPage
       /\ Step("last_version", get_addon_last_version(addon, resp, page),
               [NoCall EXCEPT !.resp = resp, !.page = page])

CheckVulnsAddon ==
  /\ pc = "vulns"
  /\ \E resp \in EnvOf(env).responses,
        vulns \in VulnLists(EnvOf(env).vuln_lengths, EnvOf(env).fixed) :
       /\ (resp.exc # "" \/ resp.status # 200) => vulns = <<>>
       /\ \E oracle \in [1 .. Len(vulns) -> EnvOf(env).answers] :
            Step("vulns", check_vulns_addon(addon, resp, vulns, oracle),
                 [NoCall EXCEPT !.resp = resp, !.vulns = vulns, !.oracle = oracle])

CheckAddonAlteration ==
  /\ pc = "alteration"
  /\ \E resp \in EnvOf(env).responses, trees \in EnvOf(env).trees :
       Step("alteration", check_addon_alteration(addon, resp, trees[1], trees[2]),
            [NoCall EXCEPT !.resp = resp, !.left = trees[1], !.right = trees[2]])

\* "return addons"
Return ==
  /\ pc = "version"
  /\ idx > Len(addons_name)
  /\ ~core.called
  /\ pc' = "returned"
  /\ UNCHANGED <<env, addon_type, addons_name, addons, idx, addon, last, log, core>>

\* check_vulns_core, called on its own before any addon is analysed.
CheckVulnsCore ==
  /\ pc = "version"
  /\ idx = 1
  /\ ~core.called
  /\ \E resp \in EnvOf(env).responses,
        vulns \in VulnLists(EnvOf(env).vuln_lengths, EnvOf(env).fixed) :
       /\ (resp.exc # "" \/ resp.status # 200) => vulns = <<>>
       /\ \E oracle \in [1 .. Len(vulns) -> EnvOf(env).answers],
               version_core \in EnvOf(env).installed :
            LET r == check_vulns_core(version_core, resp, vulns, oracle)
            IN core' = [called |-> TRUE, version_core |-> version_core,
                        resp |-> resp, vulns |-> vulns, oracle |-> oracle,
                        url |-> r.url, ret |-> r.ret, err |-> r.err,
                        raised |-> r.raised]
  /\ UNCHANGED <<env, addon_type, addons_name, addons, idx, pc, addon, last, log>>

Next ==
  \/ GetAddonVersion
  \/ GetAddonLastVersion
  \/ CheckVulnsAddon
  \/ CheckAddonAlteration
  \/ Return
  \/ CheckVulnsCore

Spec == Init /\ [][Next]_vars

SpecStages == InitIn("stages") /\ [][Next]_vars

SpecTrees == InitIn("trees") /\ [][Next]_vars

\* ================================================================= claims
\* A well-formed dotted-numeric version string: digits separated by single
\* dots.
WellFormed(v) ==
  /\ v # None
  /\ v # <<>>
  /\ \A k \in 1 .. Len(v) : IsDigit(v[k]) \/ v[k] = "."
  /\ IsDigit(v[1])
  /\ IsDigit(v[Len(v)])
  /\ \A k \in 1 .. Len(v) - 1 : ~(v[k] = "." /\ v[k + 1] = ".")

\* The ordered comparison of the specification on parsed numeric components:
\* left to right, the shorter sequence padded with zeros.
RECURSIVE PaddedLessList(_, _)
PaddedLessList(x, y) ==
  IF x = <<>> /\ y = <<>> THEN FALSE
  ELSE LET a == IF x = <<>> THEN 0 ELSE Head(x).n
           b == IF y = <<>> THEN 0 ELSE Head(y).n
       IN IF a < b THEN TRUE
          ELSE IF a > b THEN FALSE
          ELSE PaddedLessList(IF x = <<>> THEN x ELSE Tail(x),
                              IF y = <<>> THEN y ELSE Tail(y))

PaddedLess(v, w) == PaddedLessList(ParseVersion(v), ParseVersion(w))

\* Entry k of the database answer is in the list of vulnerabilities.
Included(k, vulns) == \E m \in 1 .. Len(vulns) : vulns[m].link = <<url_details, k>>

Flagged(k, vulns) ==
  \E m \in 1 .. Len(vulns) :
    vulns[m].link = <<url_details, k>> /\ vulns[m].name[1] = " To check : "

\* The vulnerability stage has just run and the database answered 200.
VulnsAnswered ==
  last.stage = "vulns" /\ last.resp.exc = "" /\ last.resp.status = 200

StageIndex(stage) == IndexOf(Stages, stage, 1)

\* C1: whatever the outcomes of the stages, the analysis is never aborted,
\* and when it returns the results hold exactly one record per discovered
\* addon, in the order of discovery.
C1_OneRecordPerAddon ==
  /\ pc # "raised"
  /\ Len(addons) <= Len(addons_name)
  /\ \A k \in 1 .. Len(addons) : addons[k].name = addons_name[k]
  /\ pc = "returned" => Len(addons) = Len(addons_name)

\* C2: the stages of an addon run in the order version, last_version, vulns,
\* alteration, each only after the stage before it returned without error
\* (so no stage runs twice); a stage that returns an error is the last stage
\* of its addon, the record of the addon is in the results all the same, and
\* the next stage to run is the first stage of the next addon.
C2_StagesInOrder ==
  \A j \in 1 .. Len(log) :
    /\ (j = 1 \/ log[j - 1].idx # log[j].idx) => log[j].stage = "version"
    /\ j = 1 => log[j].idx = 1
    /\ j > 1 => log[j].idx \in {log[j - 1].idx, log[j - 1].idx + 1}
    /\ (j > 1 /\ log[j - 1].idx = log[j].idx) =>
         /\ log[j - 1].err = "None"
         /\ log[j - 1].raised = ""
         /\ StageIndex(log[j].stage) = StageIndex(log[j - 1].stage) + 1
    /\ log[j].err # "None" =>
         /\ log[j].raised = ""
         /\ Len(addons) >= log[j].idx
         /\ addons[log[j].idx].name = addons_name[log[j].idx]
         /\ j < Len(log) => log[j + 1].idx = log[j].idx + 1

\* C2 witness: the vulnerability stage of the first addon returned an error
\* and the second addon started with its version stage.
C2_Witness ==
  \E j \in 1 .. Len(log) - 1 :
    /\ log[j].idx = 1
    /\ log[j].stage = "vulns"
    /\ log[j].err = "HTTPError"
    /\ log[j + 1].idx = 2
    /\ log[j + 1].stage = "version"
    /\ Len(addons) >= 1

\* C3: an entry whose fixed_in cannot be compared with the installed version
\* (the comparison raises) is in the vulnerabilities of the record the stage
\* hands back, flagged "To check", and cve is YES.
C3_IncomparableIsFlagged ==
  (VulnsAnswered /\ last.raised = "") =>
    \A k \in 1 .. Len(last.vulns) :
      LooseVersionLess(last.pre.version, last.vulns[k].fixed_in)
          \in {"TypeError", "AttributeError"} =>
        /\ Flagged(k, addon.vulns)
        /\ addon.cve = "YES"

\* C4: with well-formed versions, an entry is in the vulnerabilities of the
\* record a stage that returned no error hands back if and only if the installed version is
\* strictly lower than its fixed_in, and the entries keep the order of the
\* answer.
C4_IncludedIffLower ==
  (VulnsAnswered /\ last.err = "None" /\ last.raised = ""
     /\ WellFormed(last.pre.version)) =>
    /\ \A k \in 1 .. Len(last.vulns) :
         WellFormed(last.vulns[k].fixed_in) =>
           (Included(k, addon.vulns)
              <=> PaddedLess(last.pre.version, last.vulns[k].fixed_in))
    /\ \A m \in 1 .. Len(addon.vulns) - 1 :
         addon.vulns[m].link[2] < addon.vulns[m + 1].link[2]

\* C5: on well-formed versions the comparison the stage makes is the padded
\* numeric comparison: it never raises, it says "lower" exactly when the
\* padded components are lower, and never both ways round.
C5_PaddedComparison ==
  (VulnsAnswered /\ last.err = "None" /\ last.raised = "") =>
    \A k \in 1 .. Len(last.vulns) :
      LET v == last.pre.version
          f == last.vulns[k].fixed_in
      IN (WellFormed(v) /\ WellFormed(f)) =>
           /\ LooseVersionLess(v, f) = (IF PaddedLess(v, f) THEN "True" ELSE "False")
           /\ ~(LooseVersionLess(v, f) = "True" /\ LooseVersionLess(f, v) = "True")

\* C6: a stage whose request failed with an HTTP error has set notes and has
\* left every other field of the record as it was before the stage.
C6_FailureSetsOnlyNotes ==
  (/\ last.stage \in {"last_version", "vulns", "alteration"}
   /\ last.resp.exc = ""
   /\ last.resp.status >= 400) =>
    /\ addon.notes # ""
    /\ [addon EXCEPT !.notes = last.pre.notes] = last.pre

\* C7: a record in the results has vulnerabilities only if its cve is YES.
C7_VulnsOnlyIfCve ==
  \A k \in 1 .. Len(addons) : addons[k].vulns # <<>> => addons[k].cve = "YES"

\* Two trees that differ, and only in files below ignored directories.
DifferOnlyInIgnored(left, right) ==
  /\ left # right
  /\ \A p \in 1 .. Len(Paths) : left[p] # right[p] => IsIgnored(Paths[p])

\* C8: with the archive fetched, trees that differ only below ignored
\* directories have different hashes and give altered YES with no
\* alterations; identical trees give altered NO with no alterations.
C8_IgnoredOnlyIsAltered ==
  (last.stage = "alteration" /\ last.resp.exc = "" /\ last.resp.status = 200) =>
    /\ DifferOnlyInIgnored(last.left, last.right) =>
         /\ dirhash(last.left) # dirhash(last.right)
         /\ addon.altered = "YES"
         /\ addon.alterations = <<>>
    /\ last.left = last.right =>
         /\ addon.altered = "NO"
         /\ addon.alterations = <<>>

\* C9: whatever the oracle does, the correlation returns without error: for
\* an addon every entry the comparison lets in is in the vulnerabilities,
\* cve says whether there are any, and the integrity stage is next; for the
\* core every entry of the answer is returned.
C9_OracleNeverFails ==
  /\ VulnsAnswered =>
       /\ last.err = "None"
       /\ last.raised = ""
       /\ pc = "alteration"
       /\ \A k \in 1 .. Len(last.vulns) :
            LooseVersionLess(last.pre.version, last.vulns[k].fixed_in) # "False"
              => Included(k, addon.vulns)
       /\ \A m \in 1 .. Len(addon.vulns) : addon.vulns[m].poc \in {"CHECK", "YES"}
       /\ addon.cve = (IF addon.vulns # <<>> THEN "YES" ELSE "NO")
  /\ (core.called /\ core.resp.exc = "" /\ core.resp.status = 200) =>
       /\ core.err = "None"
       /\ core.raised = ""
       /\ Len(core.ret) = Len(core.vulns)

\* The listing answered 200 and both patterns matched.
ListingMatched ==
  /\ last.resp.exc = ""
  /\ last.resp.status = 200
  /\ last.page.version # None
  /\ last.page.date # None

\* C10: the listing stage changes last_version, last_release_date and link
\* only on a 200 answer in which both patterns match, and then sets all
\* three; on any other answer that is no HTTP error (one pattern matching, a
\* redirect) the record is untouched, last_version is still "Not found",
\* notes is empty, no error is returned and the vulnerability stage is next.
C10_PartialMatchIsNotFound ==
  last.stage = "last_version" =>
    /\ (\/ addon.last_version # last.pre.last_version
        \/ addon.last_release_date # last.pre.last_release_date
        \/ addon.link # last.pre.link) => ListingMatched
    /\ ListingMatched =>
         /\ addon.last_version = last.page.version
         /\ addon.last_release_date # <<>>
         /\ addon.link # <<>>
    /\ (last.resp.exc = "" /\ last.resp.status < 400 /\ ~ListingMatched) =>
         /\ addon = last.pre
         /\ addon.last_version = NotFound
         /\ addon.notes = ""
         /\ last.err = "None"
         /\ last.raised = ""
         /\ pc = "vulns"

\* C10 witness: a 200 answer in which only the version pattern matched.
C10_Witness ==
  /\ last.stage = "last_version"
  /\ last.resp.exc = ""
  /\ last.resp.status = 200
  /\ last.page.version # None
  /\ last.page.date = None
  /\ addon.last_version = NotFound
  /\ pc = "vulns"

====
